---- MODULE Spec2Model ----
(***************************************************************************)
(* Model of BarcodeDetectionService (src/src/services/                     *)
(* barcodeDetectionService.ts): the camera lifecycle around the Quagga     *)
(* backend and the one-shot jsQR -> Quagga.decodeSingle fallback pipeline. *)
(*                                                                         *)
(* Quagga and jsQR are external libraries.  The model keeps of them only   *)
(* what the service's calls rely on: a running flag (start/stop), the list *)
(* of "detected" subscribers (onDetected appends, offDetected without an   *)
(* argument empties it), whether the camera stream is held, and the        *)
(* callbacks they fire.                                                    *)
(*                                                                         *)
(* The last part models the camera mode of BarcodeScannerWithAPI           *)
(* (src/src/component/BarcodeScannerWithAPI.tsx), the component that       *)
(* drives the service, and its processBarcode requests.                    *)
(***************************************************************************)
EXTENDS Naturals, Integers, Sequences, FiniteSets, TLC

\* ------------------------------------------------------------------ bounds
MaxInitCalls == 2      \* initializeCamera calls issued in one behaviour
MaxListeners == 2      \* cap on stacked "detected" subscribers
MaxShots == 2          \* one-shot detection calls issued in one behaviour
MaxEvents == 2         \* decode events logged per streaming session
MaxRequests == 2       \* processBarcode requests in flight at one time

InitIds == 1..MaxInitCalls
ShotIds == 1..MaxShots

\* consumer callbacks handed to startCameraDetection
Callbacks == {"cb1", "cb2"}

\* decode events of the streaming pipeline: data.codeResult
Detections ==
    { [code |-> "4006381333931", format |-> "ean_13"],
      [code |-> "ABC-1", format |-> "code_128"] }

None == "<none>"

VARIABLES
    isInitialized,   \* BarcodeDetectionService.isInitialized
    quagga,          \* backend: [inited, running, listeners, held]
    initCalls,       \* per initializeCamera call: state of its promise
    shots,           \* per one-shot call: state of its promise and decoders
    stoppedBy,       \* how streaming was last stopped, "none" after a start
    initSucceeded,   \* an initializeCamera call succeeded since the last cleanup
    session,         \* history of the current streaming session
    lastOp,          \* the handler that ran last
    lastCalls,       \* backend calls that handler made, in order
    lastDelivered,   \* consumer onDetected invocations that handler caused
    pre,             \* lifecycle state the handler started from
    ui               \* state of the BarcodeScannerWithAPI component

vars == <<isInitialized, quagga, initCalls, shots, stoppedBy, initSucceeded,
          session, lastOp, lastCalls, lastDelivered, pre, ui>>

camVars == <<isInitialized, quagga, initCalls, stoppedBy, initSucceeded, session>>

\* ------------------------------------------------------- result constructors
\* BarcodeDetectionResult: absent optional fields are None
Success(code, format) ==
    [success |-> TRUE, barcode |-> code, format |-> format, error |-> None]

Failure(msg) ==
    [success |-> FALSE, barcode |-> None, format |-> None, error |-> msg]

NotInitializedResult == Failure("Camera not initialized")

\* variant: code and format swapped
DetectedResultSwapped(data) == Success(data.format, data.code)

\* the listener body of startCameraDetection: data -> result
DetectedResult(data) == Success(data.code, data.format)

\* ------------------------------------------------------------ Quagga backend
QuaggaStart(q) == [q EXCEPT !.running = TRUE]

QuaggaOnDetected(q, cb) == [q EXCEPT !.listeners = Append(@, cb)]

QuaggaStop(q) == [q EXCEPT !.running = FALSE, !.held = FALSE]

QuaggaOffDetected(q) == [q EXCEPT !.listeners = <<>>]

\* ------------------------------------------------------------------- helpers
Snapshot ==
    [isInitialized |-> isInitialized,
     running |-> quagga.running,
     listeners |-> Len(quagga.listeners),
     held |-> quagga.held,
     stoppedBy |-> stoppedBy]

\* History of streaming since the last cleanup.  cb, starts: the callback of
\* the latest successful startCameraDetection and the number of such calls
\* since the last stop; prev: the listeners the last effective stop removed;
\* emitted, received: the decode events reported and the consumer callback
\* invocations made since the latest start or stop.
NoSession ==
    [cb |-> None, starts |-> 0, prev |-> <<>>, emitted |-> <<>>, received |-> <<>>]

SessionStarted(ss, cb) ==
    [ss EXCEPT !.cb = cb, !.starts = @ + 1, !.emitted = <<>>, !.received = <<>>]

SessionStopped(ss, init, q) ==
    IF init
      THEN [cb |-> None, starts |-> 0,
            prev |-> IF q.listeners # <<>> THEN q.listeners ELSE ss.prev,
            emitted |-> <<>>, received |-> <<>>]
      ELSE ss

\* ids are handed out in order: the next call takes the lowest idle id
NextInitId(c) ==
    /\ initCalls[c].pc = "idle"
    /\ \A d \in InitIds : d < c => initCalls[d].pc # "idle"

\* --------------------------------------------------------- initializeCamera
\* stale: cleanup has been called since the call was issued
IdleCall ==
    [pc |-> "idle", backend |-> FALSE, err |-> FALSE, afterSuccess |-> FALSE,
     stale |-> FALSE]

\* variant: the early return of lines 19-21 missing
InitializeCameraNoGuard(c) ==
    /\ NextInitId(c)
    /\ initCalls' = [initCalls EXCEPT ![c] =
           [pc |-> "waiting", backend |-> TRUE, err |-> FALSE,
            afterSuccess |-> initSucceeded, stale |-> FALSE]]
    /\ lastCalls' = <<"Quagga.init">>
    /\ lastOp' = "initializeCamera"
    /\ lastDelivered' = <<>>
    /\ pre' = Snapshot
    /\ UNCHANGED <<isInitialized, quagga, shots, stoppedBy, initSucceeded, session>>
    /\ UNCHANGED ui

\* lines 17-54: the synchronous part of a call.  backend: the call invoked
\* Quagga.init; afterSuccess: it was issued after a successful
\* initialization with no cleanup since.
InitializeCamera(c) ==
    /\ NextInitId(c)
    /\ IF isInitialized
         THEN /\ initCalls' = [initCalls EXCEPT ![c] =
                     [pc |-> "resolved_true", backend |-> FALSE, err |-> FALSE,
                      afterSuccess |-> initSucceeded, stale |-> FALSE]]
              /\ lastCalls' = <<>>
         ELSE /\ initCalls' = [initCalls EXCEPT ![c] =
                     [pc |-> "waiting", backend |-> TRUE, err |-> FALSE,
                      afterSuccess |-> initSucceeded, stale |-> FALSE]]
              /\ lastCalls' = <<"Quagga.init">>
    /\ lastOp' = "initializeCamera"
    /\ lastDelivered' = <<>>
    /\ pre' = Snapshot
    /\ UNCHANGED <<isInitialized, quagga, shots, stoppedBy, initSucceeded, session>>
    /\ UNCHANGED ui

\* variant: the flag set before the error test
InitCallbackFlagFirst(c, err) ==
    /\ initCalls[c].pc = "waiting"
    /\ initCalls' = [initCalls EXCEPT
                        ![c].pc = IF err THEN "rejected" ELSE "resolved_true",
                        ![c].err = err]
    /\ isInitialized' = TRUE
    /\ initSucceeded' = (initSucceeded \/ ~err)
    /\ quagga' = IF err THEN quagga
                 ELSE [quagga EXCEPT !.held = TRUE, !.inited = TRUE]
    /\ lastOp' = IF err THEN "initCallbackError" ELSE "initCallbackOk"
    /\ lastCalls' = <<>>
    /\ lastDelivered' = <<>>
    /\ pre' = Snapshot
    /\ UNCHANGED <<shots, stoppedBy, session>>
    /\ UNCHANGED ui

\* lines 55-64: the callback Quagga.init fires.  reject(err) settles the
\* promise the async function returned without awaiting it, so the catch of
\* lines 66-69 does not run.
InitCallback(c, err) ==
    /\ initCalls[c].pc = "waiting"
    /\ IF err
         THEN /\ initCalls' = [initCalls EXCEPT ![c].pc = "rejected", ![c].err = TRUE]
              /\ UNCHANGED <<isInitialized, quagga, initSucceeded>>
         ELSE /\ initCalls' = [initCalls EXCEPT ![c].pc = "resolved_true"]
              /\ isInitialized' = TRUE
              /\ initSucceeded' = TRUE
              /\ quagga' = [quagga EXCEPT !.held = TRUE, !.inited = TRUE]
    /\ lastOp' = IF err THEN "initCallbackError" ELSE "initCallbackOk"
    /\ lastCalls' = <<>>
    /\ lastDelivered' = <<>>
    /\ pre' = Snapshot
    /\ UNCHANGED <<shots, stoppedBy, session>>
    /\ UNCHANGED ui

\* ----------------------------------------------------- startCameraDetection
\* variant: the isInitialized guard missing
StartCameraDetectionNoGuard(cb) ==
    /\ Len(quagga.listeners) < MaxListeners
    /\ quagga' = QuaggaOnDetected(QuaggaStart(quagga), cb)
    /\ session' = SessionStarted(session, cb)
    /\ lastCalls' = <<"Quagga.start", "Quagga.onDetected">>
    /\ lastDelivered' = <<>>
    /\ stoppedBy' = "none"
    /\ lastOp' = "startCameraDetection"
    /\ pre' = Snapshot
    /\ UNCHANGED <<isInitialized, initCalls, shots, initSucceeded>>
    /\ UNCHANGED ui

\* lines 75-98
StartCameraDetection(cb) ==
    /\ Len(quagga.listeners) < MaxListeners
    /\ IF ~isInitialized
         THEN /\ lastDelivered' = <<[cb |-> cb, result |-> NotInitializedResult]>>
              /\ lastCalls' = <<>>
              /\ UNCHANGED <<quagga, session>>
         ELSE /\ quagga' = QuaggaOnDetected(QuaggaStart(quagga), cb)
              /\ session' = SessionStarted(session, cb)
              /\ lastCalls' = <<"Quagga.start", "Quagga.onDetected">>
              /\ lastDelivered' = <<>>
    /\ stoppedBy' = "none"
    /\ lastOp' = "startCameraDetection"
    /\ pre' = Snapshot
    /\ UNCHANGED <<isInitialized, initCalls, shots, initSucceeded>>
    /\ UNCHANGED ui

\* ------------------------------------------------------ stopCameraDetection
\* variant: Quagga.offDetected forgotten
StopBackendNoOff(init, q) ==
    IF init THEN QuaggaStop(q) ELSE q

\* lines 103-108 as a function of the flag and the backend
StopBackend(init, q) ==
    IF init THEN QuaggaOffDetected(QuaggaStop(q)) ELSE q

StopCalls(init) ==
    IF init THEN <<"Quagga.stop", "Quagga.offDetected">> ELSE <<>>

\* variant: the stop also clears the initialization flag
StopCameraDetectionResetsFlag ==
    /\ quagga' = StopBackend(isInitialized, quagga)
    /\ session' = SessionStopped(session, isInitialized, quagga)
    /\ isInitialized' = FALSE
    /\ lastCalls' = StopCalls(isInitialized)
    /\ stoppedBy' = "stopCameraDetection"
    /\ lastOp' = "stopCameraDetection"
    /\ lastDelivered' = <<>>
    /\ pre' = Snapshot
    /\ UNCHANGED <<initCalls, shots, initSucceeded>>
    /\ UNCHANGED ui

\* lines 103-108
StopCameraDetection ==
    /\ quagga' = StopBackend(isInitialized, quagga)
    /\ session' = SessionStopped(session, isInitialized, quagga)
    /\ lastCalls' = StopCalls(isInitialized)
    /\ stoppedBy' = "stopCameraDetection"
    /\ lastOp' = "stopCameraDetection"
    /\ lastDelivered' = <<>>
    /\ pre' = Snapshot
    /\ UNCHANGED <<isInitialized, initCalls, shots, initSucceeded>>
    /\ UNCHANGED ui

\* ------------------------------------------------------------------ cleanup
\* variant: the flag reset of line 289 missing
CleanupNoReset ==
    /\ quagga' = StopBackend(isInitialized, quagga)
    /\ lastCalls' = StopCalls(isInitialized)
    /\ initSucceeded' = FALSE
    /\ session' = NoSession
    /\ initCalls' = [c \in InitIds |->
                        IF initCalls[c].pc = "idle" THEN initCalls[c]
                        ELSE [initCalls[c] EXCEPT !.stale = TRUE]]
    /\ stoppedBy' = "cleanup"
    /\ lastOp' = "cleanup"
    /\ lastDelivered' = <<>>
    /\ pre' = Snapshot
    /\ UNCHANGED <<isInitialized, shots>>
    /\ UNCHANGED ui

\* variant: the stopCameraDetection call of line 288 missing
CleanupNoStop ==
    /\ lastCalls' = <<>>
    /\ isInitialized' = FALSE
    /\ initSucceeded' = FALSE
    /\ session' = NoSession
    /\ initCalls' = [c \in InitIds |->
                        IF initCalls[c].pc = "idle" THEN initCalls[c]
                        ELSE [initCalls[c] EXCEPT !.stale = TRUE]]
    /\ stoppedBy' = "cleanup"
    /\ lastOp' = "cleanup"
    /\ lastDelivered' = <<>>
    /\ pre' = Snapshot
    /\ UNCHANGED <<quagga, shots>>
    /\ UNCHANGED ui

\* lines 287-290
Cleanup ==
    /\ quagga' = StopBackend(isInitialized, quagga)
    /\ lastCalls' = StopCalls(isInitialized)
    /\ isInitialized' = FALSE
    /\ initSucceeded' = FALSE
    /\ session' = NoSession
    /\ initCalls' = [c \in InitIds |->
                        IF initCalls[c].pc = "idle" THEN initCalls[c]
                        ELSE [initCalls[c] EXCEPT !.stale = TRUE]]
    /\ stoppedBy' = "cleanup"
    /\ lastOp' = "cleanup"
    /\ lastDelivered' = <<>>
    /\ pre' = Snapshot
    /\ UNCHANGED shots
    /\ UNCHANGED ui

\* --------------------------------------------------- streaming decode event
\* The backend publishes one "detected" event to the subscribers it has at
\* that moment, in subscription order; each subscriber is the listener of
\* lines 86-97 wrapping one consumer callback.  stopper > 0: the consumer
\* callback at that position calls stopCameraDetection from inside.
\* The frame pipeline is external: once Quagga.init has succeeded a decode
\* may be reported at any time, the halted pipeline included (work already
\* scheduled), so unregistering is observable independently of halting.
DeviceEmit(data, stopper) ==
    /\ quagga.inited
    /\ Len(session.emitted) < MaxEvents
    /\ stopper \in 0..Len(quagga.listeners)
    /\ lastDelivered' =
          [i \in 1..Len(quagga.listeners) |->
              [cb |-> quagga.listeners[i], result |-> DetectedResult(data)]]
    /\ IF stopper > 0
         THEN /\ quagga' = StopBackend(isInitialized, quagga)
              /\ session' = SessionStopped(session, isInitialized, quagga)
              /\ lastCalls' = StopCalls(isInitialized)
              /\ stoppedBy' = "callback"
         ELSE /\ session' = [session EXCEPT
                                !.emitted = Append(@, data),
                                !.received = @ \o lastDelivered']
              /\ lastCalls' = <<>>
              /\ UNCHANGED <<quagga, stoppedBy>>
    /\ lastOp' = "deviceEmit"
    /\ pre' = Snapshot
    /\ UNCHANGED <<isInitialized, initCalls, shots, initSucceeded>>
    /\ UNCHANGED ui

\* ------------------------------------------------------------ reader sets
\* lines 41-51: decoder.readers of the Quagga.init configuration
StreamReaders ==
    <<"code_128_reader", "ean_reader", "ean_8_reader", "code_39_reader",
      "code_39_vin_reader", "codabar_reader", "upc_reader", "upc_e_reader",
      "i2of5_reader">>

\* lines 161-168: decoder.readers of the decodeSingle call of detectFromImageFile
FileReaders ==
    <<"code_128_reader", "ean_reader", "ean_8_reader", "code_39_reader",
      "upc_reader", "upc_e_reader">>

\* variant: the streaming list copied into the canvas path
CanvasReadersAsStreaming ==
    <<"code_128_reader", "ean_reader", "ean_8_reader", "code_39_reader",
      "code_39_vin_reader", "codabar_reader", "upc_reader", "upc_e_reader",
      "i2of5_reader">>

\* lines 247-254: decoder.readers of the decodeSingle call of detectFromCanvas
CanvasReaders ==
    <<"code_128_reader", "ean_reader", "ean_8_reader", "code_39_reader",
      "upc_reader", "upc_e_reader">>

\* The readers belong to the Quagga library; the model keeps of them the
\* format each one reports and which symbols it can read.  A reader reads the
\* symbols of its own symbology; a Code 39 VIN symbol is a Code 39 symbol
\* whose payload is a vehicle identification number, so the plain Code 39
\* reader reads it as well.
Symbologies ==
    {"code_128", "ean_13", "ean_8", "code_39", "code_39_vin", "codabar",
     "upc_a", "upc_e", "i2of5"}

ReaderFormat(rd) ==
    CASE rd = "code_128_reader" -> "code_128"
      [] rd = "ean_reader" -> "ean_13"
      [] rd = "ean_8_reader" -> "ean_8"
      [] rd = "code_39_reader" -> "code_39"
      [] rd = "code_39_vin_reader" -> "code_39_vin"
      [] rd = "codabar_reader" -> "codabar"
      [] rd = "upc_reader" -> "upc_a"
      [] rd = "upc_e_reader" -> "upc_e"
      [] rd = "i2of5_reader" -> "i2of5"

Reads(rd, y) ==
    \/ ReaderFormat(rd) = y
    \/ rd = "code_39_reader" /\ y = "code_39_vin"

\* what the decodeSingle callback can receive for a frame whose only symbol
\* is of symbology y when the call configured the given readers: nothing
\* (no reader reads it, or the read fails), or the code result of a
\* configured reader that reads it
SymbolOutcomes(readers, y) ==
    { [kind |-> "undefined", code |-> None, format |-> None],
      [kind |-> "noCodeResult", code |-> None, format |-> None] }
    \cup
    { [kind |-> "code", code |-> "1M8GDM9AXKP042788",
       format |-> ReaderFormat(readers[i])] :
          i \in {j \in 1..Len(readers) : Reads(readers[j], y)} }

\* ------------------------------------------------------- one-shot detection
\* what the environment does at each step of one decode of one frame
CtxOutcomes == {"context", "null", "throws"}

\* jsQR(...): throws, returns null, or returns an object with a data string
MatrixOutcomes ==
    { [kind |-> "throws", data |-> None],
      [kind |-> "null", data |-> None],
      [kind |-> "code", data |-> ""],
      [kind |-> "code", data |-> "ITEM-42"] }

\* the argument of the Quagga.decodeSingle callback: undefined, a result
\* without codeResult, or a result with codeResult {code, format}
LinearOutcomes ==
    { [kind |-> "undefined", code |-> None, format |-> None],
      [kind |-> "noCodeResult", code |-> None, format |-> None],
      [kind |-> "code", code |-> "5901234123457", format |-> "ean_13"],
      [kind |-> "code", code |-> "XY-7", format |-> "code_39"] }

\* one frame: does getImageData throw, what jsQR does, does canvas.toDataURL
\* throw, does the Quagga.decodeSingle call itself throw
Frames ==
    [pixels : {"ok", "throws"}, qr : MatrixOutcomes,
     enc : {"ok", "throws"}, lin : {"ok", "throws"}]

NotRunQr == [kind |-> "notRun", data |-> None]
NotRunLin == [kind |-> "notRun", code |-> None, format |-> None]

\* resolves: how many times the call has produced its result; readers: the
\* decoder.readers the call handed to Quagga.decodeSingle; symbol: the
\* symbology of the frame's symbol, where the environment fixed one
IdleShot ==
    [pc |-> "idle", path |-> None, ctx |-> None, result |-> None,
     trace |-> <<>>, thrown |-> None, qr |-> NotRunQr, lin |-> NotRunLin,
     resolves |-> 0, readers |-> <<>>, symbol |-> None]

NextShotId(s) ==
    /\ shots[s].pc = "idle"
    /\ \A t \in ShotIds : t < s => shots[t].pc # "idle"

\* variant: the payload test inverted
MatrixHitInverted(qr) == qr.kind = "code" /\ qr.data = ""

\* variant: the "&& qrCode.data" part of the test missing
MatrixHitAnyObject(qr) == qr.kind = "code"

\* lines 143 and 229: qrCode && qrCode.data
MatrixHit(qr) == qr.kind = "code" /\ qr.data # ""

\* lines 145-149 and 231-235
QrResult(qr) == Success(qr.data, "QR_CODE")

\* variant: the format of the matrix branch copied into the linear branch
DecodeSingleResultQrFormat(r) ==
    IF r.kind = "code"
      THEN Success(r.code, "QR_CODE")
      ELSE Failure("No barcode detected in image")

\* variant: the log text of line 266 used as the error message
DecodeSingleResultCanvasMsg(r) ==
    IF r.kind = "code"
      THEN Success(r.code, r.format)
      ELSE Failure("No barcode detected in canvas")

\* lines 171-186: the decodeSingle callback of detectFromImageFile
DecodeSingleResult(r) ==
    IF r.kind = "code"
      THEN Success(r.code, r.format)
      ELSE Failure("No barcode detected in image")

\* variant: the log text of line 266 used as the error message of line 269
CanvasDecodeSingleResultLogText(r) ==
    IF r.kind = "code"
      THEN Success(r.code, r.format)
      ELSE Failure("No barcode detected in canvas")

\* lines 257-272: the decodeSingle callback of detectFromCanvas
CanvasDecodeSingleResult(r) ==
    IF r.kind = "code"
      THEN Success(r.code, r.format)
      ELSE Failure("No barcode detected in image")

\* lines 130-187: the img.onload handler.  An exception in the handler is
\* outside the try of detectFromImageFile and outside the promise executor:
\* nothing settles the promise ("hung").
FileOnload(sh, f) ==
    IF f.pixels = "throws"
      THEN [sh EXCEPT !.pc = "hung", !.thrown = "getImageData"]
    ELSE IF f.qr.kind = "throws"
      THEN [sh EXCEPT !.pc = "hung", !.thrown = "jsQR",
                      !.trace = <<"jsQR">>, !.qr = f.qr]
    ELSE IF MatrixHit(f.qr)
      THEN [sh EXCEPT !.pc = "resolved", !.resolves = @ + 1, !.result = QrResult(f.qr),
                      !.trace = <<"jsQR">>, !.qr = f.qr]
    ELSE IF f.enc = "throws"
      THEN [sh EXCEPT !.pc = "hung", !.thrown = "toDataURL",
                      !.trace = <<"jsQR">>, !.qr = f.qr]
    ELSE IF f.lin = "throws"
      THEN [sh EXCEPT !.pc = "hung", !.thrown = "decodeSingle",
                      !.trace = <<"jsQR", "Quagga.decodeSingle">>, !.qr = f.qr,
                    !.readers = FileReaders]
    ELSE [sh EXCEPT !.pc = "decoding",
                    !.trace = <<"jsQR", "Quagga.decodeSingle">>, !.qr = f.qr,
                    !.readers = FileReaders]

\* lines 212-282: the body of detectFromCanvas up to the pending promise.
\* Lines 216-236 run inside the try; lines 239-256 run inside the promise
\* executor, whose exception rejects the promise that the async function
\* returns without awaiting it.
CanvasBody(sh, ctx, f) ==
    IF ctx = "throws"
      THEN [sh EXCEPT !.pc = "resolved", !.resolves = @ + 1, !.thrown = "getContext",
                      !.result = Failure("Failed to process canvas")]
    ELSE IF ctx = "null"
      THEN [sh EXCEPT !.pc = "resolved", !.resolves = @ + 1,
                      !.result = Failure("Could not get canvas context")]
    ELSE IF f.pixels = "throws"
      THEN [sh EXCEPT !.pc = "resolved", !.resolves = @ + 1, !.thrown = "getImageData",
                      !.result = Failure("Failed to process canvas")]
    ELSE IF f.qr.kind = "throws"
      THEN [sh EXCEPT !.pc = "resolved", !.resolves = @ + 1, !.thrown = "jsQR",
                      !.result = Failure("Failed to process canvas"),
                      !.trace = <<"jsQR">>, !.qr = f.qr]
    ELSE IF MatrixHit(f.qr)
      THEN [sh EXCEPT !.pc = "resolved", !.resolves = @ + 1, !.result = QrResult(f.qr),
                      !.trace = <<"jsQR">>, !.qr = f.qr]
    ELSE IF f.enc = "throws"
      THEN [sh EXCEPT !.pc = "rejected", !.thrown = "toDataURL",
                      !.trace = <<"jsQR">>, !.qr = f.qr]
    ELSE IF f.lin = "throws"
      THEN [sh EXCEPT !.pc = "rejected", !.thrown = "decodeSingle",
                      !.trace = <<"jsQR", "Quagga.decodeSingle">>, !.qr = f.qr,
                    !.readers = CanvasReaders]
    ELSE [sh EXCEPT !.pc = "decoding",
                    !.trace = <<"jsQR", "Quagga.decodeSingle">>, !.qr = f.qr,
                    !.readers = CanvasReaders]

\* lines 113-129, 196-206: the synchronous part of detectFromImageFile
FileBody(sh, ctx) ==
    IF ctx = "throws"
      THEN [sh EXCEPT !.pc = "resolved", !.resolves = @ + 1, !.thrown = "getContext",
                      !.result = Failure("Failed to process image")]
    ELSE IF ctx = "null"
      THEN [sh EXCEPT !.pc = "resolved", !.resolves = @ + 1,
                      !.result = Failure("Could not get canvas context")]
    ELSE [sh EXCEPT !.pc = "loading"]

ShotStep(op) ==
    /\ lastOp' = op
    /\ lastCalls' = <<>>
    /\ lastDelivered' = <<>>
    /\ pre' = Snapshot
    /\ UNCHANGED camVars
    /\ UNCHANGED ui

DetectFromImageFile(s, ctx) ==
    /\ NextShotId(s)
    /\ shots' = [shots EXCEPT ![s] =
                    FileBody([IdleShot EXCEPT !.path = "file", !.ctx = ctx], ctx)]
    /\ ShotStep("detectFromImageFile")

ImgOnload(s, f) ==
    /\ shots[s].pc = "loading"
    /\ shots' = [shots EXCEPT ![s] = FileOnload(@, f)]
    /\ ShotStep("img.onload")

\* lines 189-194
ImgOnerror(s) ==
    /\ shots[s].pc = "loading"
    /\ shots' = [shots EXCEPT ![s] =
                    [@ EXCEPT !.pc = "resolved", !.resolves = @ + 1,
                              !.result = Failure("Could not load image")]]
    /\ ShotStep("img.onerror")

\* variant: the camera capture path guarded by the initialization flag
DetectFromCanvasNeedsCamera(s, ctx, f) ==
    /\ NextShotId(s)
    /\ shots' = [shots EXCEPT ![s] =
          IF isInitialized
            THEN CanvasBody([IdleShot EXCEPT !.path = "canvas", !.ctx = ctx], ctx, f)
            ELSE [IdleShot EXCEPT !.path = "canvas", !.ctx = ctx,
                                  !.pc = "resolved", !.resolves = @ + 1,
                                  !.result = NotInitializedResult]]
    /\ ShotStep("detectFromCanvas")

\* lines 212-282
DetectFromCanvas(s, ctx, f) ==
    /\ NextShotId(s)
    /\ shots' = [shots EXCEPT ![s] =
                    CanvasBody([IdleShot EXCEPT !.path = "canvas", !.ctx = ctx], ctx, f)]
    /\ ShotStep("detectFromCanvas")

\* the callback Quagga.decodeSingle fires: lines 171-186 for a call of
\* detectFromImageFile, lines 257-272 for a call of detectFromCanvas
DecodeSingleCallback(s, r) ==
    /\ shots[s].pc = "decoding"
    /\ shots' = [shots EXCEPT ![s] =
                    [@ EXCEPT !.pc = "resolved", !.lin = r,
                              !.resolves = @ + 1,
                              !.result = IF shots[s].path = "file"
                                           THEN DecodeSingleResult(r)
                                           ELSE CanvasDecodeSingleResult(r)]]
    /\ ShotStep("decodeSingleCallback")

\* the same callback for a frame whose only symbol is of symbology y: its
\* argument is what the readers of the call can report for that symbol
DecodeSingleOnSymbol(s, y, r) ==
    /\ shots[s].pc = "decoding"
    /\ r \in SymbolOutcomes(shots[s].readers, y)
    /\ shots' = [shots EXCEPT ![s] =
                    [@ EXCEPT !.pc = "resolved", !.lin = r, !.symbol = y,
                              !.resolves = @ + 1,
                              !.result = IF shots[s].path = "file"
                                           THEN DecodeSingleResult(r)
                                           ELSE CanvasDecodeSingleResult(r)]]
    /\ ShotStep("decodeSingleCallback")

\* ------------------------------------------------- BarcodeScannerWithAPI
\* src/src/component/BarcodeScannerWithAPI.tsx: the camera mode of the
\* component and its processBarcode requests.  ui holds the React state
\* (scanMode, cameraActive, cameraInitialized, isLoading), whether the
\* component is mounted, the number of processBarcode requests whose fetch has
\* not completed (inFlight), and whether the element #camera-container was
\* in the document at the latest initializeCamera call (target).
MountedUi ==
    [mounted |-> TRUE, scanMode |-> "manual", cameraActive |-> FALSE,
     cameraInitialized |-> FALSE, isLoading |-> FALSE, inFlight |-> 0,
     target |-> "none"]

ScanModes == {"manual", "camera", "upload"}

\* the listener startCamera hands to startCameraDetection (lines 96-101)
UiCallback == "startCamera.onResult"

\* lines 278 and 296-299: the element is rendered in camera mode while
\* cameraActive is true
ContainerMounted(u) == u.mounted /\ u.scanMode = "camera" /\ u.cameraActive

\* document.querySelector('#camera-container') at line 28 of the service
TargetLookup(u) == IF ContainerMounted(u) THEN "mounted" ELSE "absent"

\* lines 229-246: the mode buttons
UiSetScanMode(m) ==
    /\ ui.mounted
    /\ m # ui.scanMode
    /\ ui' = [ui EXCEPT !.scanMode = m]
    /\ lastOp' = "setScanMode"
    /\ lastCalls' = <<>>
    /\ lastDelivered' = <<>>
    /\ pre' = Snapshot
    /\ UNCHANGED <<isInitialized, quagga, initCalls, shots, stoppedBy,
                   initSucceeded, session>>

\* lines 85-109, from the click on "Start Camera" (rendered while
\* cameraActive is false, lines 281-284) to the await of line 89; when the
\* service is already initialized the promise is resolved and the
\* continuation of lines 90-102 runs before any other handler
UiStartCamera(c) ==
    /\ ui.mounted /\ ui.scanMode = "camera"
    /\ ~ui.cameraActive /\ ~ui.isLoading
    /\ NextInitId(c)
    /\ Len(quagga.listeners) < MaxListeners
    /\ IF isInitialized
         THEN /\ initCalls' = [initCalls EXCEPT ![c] =
                     [pc |-> "resolved_true", backend |-> FALSE, err |-> FALSE,
                      afterSuccess |-> initSucceeded, stale |-> FALSE]]
              /\ quagga' = QuaggaOnDetected(QuaggaStart(quagga), UiCallback)
              /\ session' = SessionStarted(session, UiCallback)
              /\ stoppedBy' = "none"
              /\ lastCalls' = <<"Quagga.start", "Quagga.onDetected">>
              /\ ui' = [ui EXCEPT !.cameraInitialized = TRUE,
                                  !.cameraActive = TRUE,
                                  !.target = TargetLookup(ui)]
         ELSE /\ initCalls' = [initCalls EXCEPT ![c] =
                     [pc |-> "waiting", backend |-> TRUE, err |-> FALSE,
                      afterSuccess |-> initSucceeded, stale |-> FALSE]]
              /\ lastCalls' = <<"Quagga.init">>
              /\ ui' = [ui EXCEPT !.target = TargetLookup(ui)]
              /\ UNCHANGED <<quagga, session, stoppedBy>>
    /\ lastOp' = "startCamera"
    /\ lastDelivered' = <<>>
    /\ pre' = Snapshot
    /\ UNCHANGED <<isInitialized, shots, initSucceeded>>

\* The Quagga.init callback of a startCamera call (service lines 55-64) and
\* the continuation of startCamera it releases: on an error the promise
\* rejects and the catch of lines 105-108 only sets the message; on success
\* lines 90-102 set cameraInitialized and cameraActive (no effect once the
\* component is unmounted) and call startCameraDetection.
UiInitCallback(c, err) ==
    /\ initCalls[c].pc = "waiting"
    /\ IF err
         THEN /\ initCalls' = [initCalls EXCEPT ![c].pc = "rejected", ![c].err = TRUE]
              /\ lastCalls' = <<>>
              /\ UNCHANGED <<isInitialized, quagga, initSucceeded, session,
                             stoppedBy, ui>>
         ELSE /\ Len(quagga.listeners) < MaxListeners
              /\ initCalls' = [initCalls EXCEPT ![c].pc = "resolved_true"]
              /\ isInitialized' = TRUE
              /\ initSucceeded' = TRUE
              /\ quagga' = QuaggaOnDetected(
                               QuaggaStart([quagga EXCEPT !.held = TRUE,
                                                          !.inited = TRUE]),
                               UiCallback)
              /\ session' = SessionStarted(session, UiCallback)
              /\ stoppedBy' = "none"
              /\ lastCalls' = <<"Quagga.start", "Quagga.onDetected">>
              /\ ui' = IF ui.mounted
                         THEN [ui EXCEPT !.cameraInitialized = TRUE,
                                         !.cameraActive = TRUE]
                         ELSE ui
    /\ lastOp' = IF err THEN "initCallbackError" ELSE "initCallbackOk"
    /\ lastDelivered' = <<>>
    /\ pre' = Snapshot
    /\ UNCHANGED shots

\* lines 112-117, from the click on "Stop Camera" (rendered while
\* cameraActive is true, lines 286-293)
UiStopCamera ==
    /\ ui.mounted /\ ui.scanMode = "camera" /\ ui.cameraActive
    /\ quagga' = StopBackend(isInitialized, quagga)
    /\ session' = SessionStopped(session, isInitialized, quagga)
    /\ lastCalls' = StopCalls(isInitialized)
    /\ stoppedBy' = "stopCameraDetection"
    /\ ui' = [ui EXCEPT !.cameraActive = FALSE, !.cameraInitialized = FALSE]
    /\ lastOp' = "stopCamera"
    /\ lastDelivered' = <<>>
    /\ pre' = Snapshot
    /\ UNCHANGED <<isInitialized, initCalls, shots, initSucceeded>>

\* lines 38-42: the effect cleanup that runs when the component unmounts
UiUnmount ==
    /\ ui.mounted
    /\ quagga' = StopBackend(isInitialized, quagga)
    /\ lastCalls' = StopCalls(isInitialized)
    /\ isInitialized' = FALSE
    /\ initSucceeded' = FALSE
    /\ session' = NoSession
    /\ initCalls' = [c \in InitIds |->
                        IF initCalls[c].pc = "idle" THEN initCalls[c]
                        ELSE [initCalls[c] EXCEPT !.stale = TRUE]]
    /\ stoppedBy' = "cleanup"
    /\ ui' = [ui EXCEPT !.mounted = FALSE]
    /\ lastOp' = "unmount"
    /\ lastDelivered' = <<>>
    /\ pre' = Snapshot
    /\ UNCHANGED shots

\* A decode event of the streaming pipeline: every registered listener is
\* the callback of lines 96-101, which starts a processBarcode (lines 55-57:
\* setIsLoading(true), then the fetch) for a successful result.
UiDetected(data) ==
    /\ quagga.inited
    /\ Len(session.emitted) < MaxEvents
    /\ ui.inFlight + Len(quagga.listeners) <= MaxRequests
    /\ lastDelivered' =
          [i \in 1..Len(quagga.listeners) |->
              [cb |-> quagga.listeners[i], result |-> DetectedResult(data)]]
    /\ session' = [session EXCEPT !.emitted = Append(@, data),
                                  !.received = @ \o lastDelivered']
    /\ ui' = [ui EXCEPT
                 !.inFlight = @ + Len(quagga.listeners),
                 !.isLoading = IF ui.mounted /\ Len(quagga.listeners) > 0
                                 THEN TRUE ELSE @]
    /\ lastOp' = "deviceEmit"
    /\ lastCalls' = <<>>
    /\ pre' = Snapshot
    /\ UNCHANGED <<isInitialized, quagga, initCalls, shots, stoppedBy,
                   initSucceeded>>

\* lines 44-53: Enter in the manual input (disabled while isLoading, line
\* 261) with a non-empty barcode starts a processBarcode
UiManualScan ==
    /\ ui.mounted /\ ui.scanMode = "manual" /\ ~ui.isLoading
    /\ ui.inFlight < MaxRequests
    /\ ui' = [ui EXCEPT !.inFlight = @ + 1, !.isLoading = TRUE]
    /\ lastOp' = "handleBarcodeScan"
    /\ lastCalls' = <<>>
    /\ lastDelivered' = <<>>
    /\ pre' = Snapshot
    /\ UNCHANGED <<isInitialized, quagga, initCalls, shots, stoppedBy,
                   initSucceeded, session>>

\* lines 59-82: the fetch of one processBarcode completes or fails; either
\* way the finally of lines 80-82 calls setIsLoading(false)
UiFetchDone ==
    /\ ui.inFlight > 0
    /\ ui' = [ui EXCEPT !.inFlight = @ - 1,
                        !.isLoading = IF ui.mounted THEN FALSE ELSE @]
    /\ lastOp' = "processBarcodeDone"
    /\ lastCalls' = <<>>
    /\ lastDelivered' = <<>>
    /\ pre' = Snapshot
    /\ UNCHANGED <<isInitialized, quagga, initCalls, shots, stoppedBy,
                   initSucceeded, session>>

\* ----------------------------------------------------------- specification
Init ==
    /\ isInitialized = FALSE
    /\ quagga = [inited |-> FALSE, running |-> FALSE, listeners |-> <<>>,
                 held |-> FALSE]
    /\ initCalls = [c \in InitIds |-> IdleCall]
    /\ initSucceeded = FALSE
    /\ session = NoSession
    /\ shots = [s \in ShotIds |-> IdleShot]
    /\ stoppedBy = "none"
    /\ lastOp = "none"
    /\ lastCalls = <<>>
    /\ lastDelivered = <<>>
    /\ pre = [isInitialized |-> FALSE, running |-> FALSE, listeners |-> 0,
              held |-> FALSE, stoppedBy |-> "none"]
    /\ ui = MountedUi

\* the camera lifecycle
CameraNext ==
    \/ \E c \in InitIds : InitializeCamera(c)
    \/ \E c \in InitIds, err \in BOOLEAN : InitCallback(c, err)
    \/ \E cb \in Callbacks : StartCameraDetection(cb)
    \/ StopCameraDetection
    \/ Cleanup
    \/ \E data \in Detections, stopper \in 0..MaxListeners : DeviceEmit(data, stopper)

\* one-shot detection
ShotNext ==
    \/ \E s \in ShotIds, ctx \in CtxOutcomes : DetectFromImageFile(s, ctx)
    \/ \E s \in ShotIds, f \in Frames : ImgOnload(s, f)
    \/ \E s \in ShotIds : ImgOnerror(s)
    \/ \E s \in ShotIds, ctx \in CtxOutcomes, f \in Frames : DetectFromCanvas(s, ctx, f)
    \/ \E s \in ShotIds, r \in LinearOutcomes : DecodeSingleCallback(s, r)

Next == CameraNext \/ ShotNext

Spec == Init /\ [][Next]_vars

CameraSpec == Init /\ [][CameraNext]_vars

ShotSpec == Init /\ [][ShotNext]_vars

\* one one-shot call, from its issue to its settlement
NoShotYet == \A t \in ShotIds : shots[t].pc = "idle"

SingleShotNext ==
    \/ \E s \in ShotIds, ctx \in CtxOutcomes :
          NoShotYet /\ DetectFromImageFile(s, ctx)
    \/ \E s \in ShotIds, f \in Frames : ImgOnload(s, f)
    \/ \E s \in ShotIds : ImgOnerror(s)
    \/ \E s \in ShotIds, ctx \in CtxOutcomes, f \in Frames :
          NoShotYet /\ DetectFromCanvas(s, ctx, f)
    \/ \E s \in ShotIds, r \in LinearOutcomes : DecodeSingleCallback(s, r)

\* the camera lifecycle without decode events, interleaved with one
\* one-shot call
LifecycleShotNext ==
    \/ \E c \in InitIds : InitializeCamera(c)
    \/ \E c \in InitIds, err \in BOOLEAN : InitCallback(c, err)
    \/ \E cb \in Callbacks : StartCameraDetection(cb)
    \/ StopCameraDetection
    \/ Cleanup
    \/ SingleShotNext

LifecycleShotSpec == Init /\ [][LifecycleShotNext]_vars

\* the operations that produce a BarcodeDetectionResult (a failed or a
\* successful start, a decode event, a one-shot call) and the initialization
\* they need
ResultNext ==
    \/ \E c \in InitIds : InitializeCamera(c)
    \/ \E c \in InitIds, err \in BOOLEAN : InitCallback(c, err)
    \/ \E cb \in Callbacks : StartCameraDetection(cb)
    \/ \E data \in Detections, stopper \in 0..MaxListeners : DeviceEmit(data, stopper)
    \/ SingleShotNext

ResultSpec == Init /\ [][ResultNext]_vars

\* one-shot detection of frames that carry one linear symbol
ReaderNext ==
    \/ \E s \in ShotIds, ctx \in CtxOutcomes : DetectFromImageFile(s, ctx)
    \/ \E s \in ShotIds, f \in Frames : ImgOnload(s, f)
    \/ \E s \in ShotIds : ImgOnerror(s)
    \/ \E s \in ShotIds, ctx \in CtxOutcomes, f \in Frames : DetectFromCanvas(s, ctx, f)
    \/ \E s \in ShotIds, y \in Symbologies :
          \E r \in SymbolOutcomes(StreamReaders, y) : DecodeSingleOnSymbol(s, y, r)

ReaderSpec == Init /\ [][ReaderNext]_vars

\* the component driving the service
UiNext ==
    \/ \E m \in ScanModes : UiSetScanMode(m)
    \/ \E c \in InitIds : UiStartCamera(c)
    \/ \E c \in InitIds, err \in BOOLEAN : UiInitCallback(c, err)
    \/ UiStopCamera
    \/ UiUnmount
    \/ \E data \in Detections : UiDetected(data)
    \/ UiManualScan
    \/ UiFetchDone

UiSpec == Init /\ [][UiNext]_vars

\* the operations that return a promise, and the callbacks that settle them
PromiseNext ==
    \/ \E c \in InitIds : InitializeCamera(c)
    \/ \E c \in InitIds, err \in BOOLEAN : InitCallback(c, err)
    \/ ShotNext

\* The event loop runs every callback the backend or the image loader has
\* scheduled: Quagga.init's callback, img.onload / img.onerror, and the
\* Quagga.decodeSingle callback.
Fairness ==
    /\ WF_vars(\E c \in InitIds, err \in BOOLEAN : InitCallback(c, err))
    /\ WF_vars(\E s \in ShotIds : ImgOnerror(s) \/ \E f \in Frames : ImgOnload(s, f))
    /\ WF_vars(\E s \in ShotIds, r \in LinearOutcomes : DecodeSingleCallback(s, r))

FairPromiseSpec == Init /\ [][PromiseNext]_vars /\ Fairness

\* ===================================================================== claims

\* C1: at most one detection listener is registered with the backend at any
\* time, and every decode event reported while streaming results in exactly
\* one invocation of a consumer onDetected callback.
C1_SingleListener ==
    /\ Len(quagga.listeners) <= 1
    /\ (lastOp = "deviceEmit" /\ pre.running) => Len(lastDelivered) = 1

\* C2: an initializeCamera call whose Quagga.init callback reported an error
\* resolves to false; its promise is never rejected.
C2_InitErrorResolvesFalse ==
    \A c \in InitIds :
        /\ initCalls[c].pc # "rejected"
        /\ initCalls[c].err => initCalls[c].pc = "resolved_false"

\* C3: an initializeCamera call issued after an earlier call succeeded, with
\* no cleanup in between, resolves true without invoking Quagga.init.
C3_InitIdempotent ==
    \A c \in InitIds :
        initCalls[c].afterSuccess =>
            /\ initCalls[c].pc = "resolved_true"
            /\ ~initCalls[c].backend

C3_Witness ==
    /\ lastOp = "initializeCamera"
    /\ \E c \in InitIds : initCalls[c].afterSuccess /\ initCalls[c].pc = "resolved_true"

\* C4: startCameraDetection while not initialized invokes the supplied
\* callback exactly once with the "Camera not initialized" failure, makes no
\* backend call and leaves the pipeline and the listeners as they were.
C4_StartUninitialized ==
    (lastOp = "startCameraDetection" /\ ~pre.isInitialized) =>
        /\ Len(lastDelivered) = 1
        /\ lastDelivered[1].result =
              [success |-> FALSE, barcode |-> None, format |-> None,
               error |-> "Camera not initialized"]
        /\ lastCalls = <<>>
        /\ quagga.running = pre.running
        /\ Len(quagga.listeners) = pre.listeners
        /\ quagga.listeners = <<>>

C4_Witness ==
    /\ lastOp = "startCameraDetection"
    /\ ~pre.isInitialized
    /\ Len(lastDelivered) = 1

\* C5: once stopCameraDetection has returned (called directly, from inside a
\* detection callback, or through cleanup) and until the next
\* startCameraDetection, no listener is registered and a decode event the
\* device reports invokes no consumer callback.
C5_NoDeliveryAfterStop ==
    /\ stoppedBy # "none" => quagga.listeners = <<>>
    /\ (lastOp = "deviceEmit" /\ pre.stoppedBy # "none") => lastDelivered = <<>>

\* an event reported after a stop made from inside a detection callback
C5_Witness ==
    /\ lastOp = "deviceEmit"
    /\ pre.stoppedBy = "callback"
    /\ lastDelivered = <<>>

\* C6: stopCameraDetection while not streaming makes no backend call and
\* changes nothing; Quagga.stop is only ever called while the device is held.
C6_StopNoOpUnlessStreaming ==
    /\ (lastOp = "stopCameraDetection" /\ ~pre.running) =>
          /\ lastCalls = <<>>
          /\ quagga.held = pre.held
    /\ (\E i \in 1..Len(lastCalls) : lastCalls[i] = "Quagga.stop") => pre.held

\* C7: every call of initializeCamera, detectFromImageFile and
\* detectFromCanvas eventually settles, whatever the image loader and the
\* decoders do (a rejection is counted as settling here, so only a caller
\* left suspended refutes it).
C7_EveryCallSettles ==
    /\ \A c \in InitIds :
          (initCalls[c].pc = "waiting") ~>
              (initCalls[c].pc \in {"resolved_true", "resolved_false", "rejected"})
    /\ \A s \in ShotIds :
          (shots[s].pc # "idle") ~> (shots[s].pc \in {"resolved", "rejected"})

\* C8: an exception raised while obtaining the 2D context, reading pixels,
\* running the matrix decoder, re-encoding, or invoking the linear decoder
\* yields a resolved {success:false, error} result; the call never rejects.
C8_ExceptionsBecomeFailures ==
    \A s \in ShotIds :
        /\ shots[s].pc # "rejected"
        /\ shots[s].thrown \in {"getContext", "getImageData", "jsQR",
                                "toDataURL", "decodeSingle"} =>
              /\ shots[s].pc = "resolved"
              /\ shots[s].result.success = FALSE
              /\ shots[s].result.error # None

\* C9: when the matrix decoder yields a non-empty payload, the call resolves
\* to {success:true, barcode:payload, format:"QR_CODE"} and the linear
\* decoder is not invoked.
C9_ShortCircuit ==
    \A s \in ShotIds :
        (shots[s].qr.kind = "code" /\ shots[s].qr.data # "") =>
            /\ shots[s].pc = "resolved"
            /\ shots[s].result =
                  [success |-> TRUE, barcode |-> shots[s].qr.data,
                   format |-> "QR_CODE", error |-> None]
            /\ shots[s].trace = <<"jsQR">>

\* a matrix hit on the file path and one on the canvas path
C9_Witness ==
    \E s, t \in ShotIds :
        /\ shots[s].path = "file" /\ shots[t].path = "canvas"
        /\ shots[s].qr.data = "ITEM-42" /\ shots[t].qr.data = "ITEM-42"
        /\ shots[s].pc = "resolved" /\ shots[t].pc = "resolved"

\* C10: when the matrix decoder yields null or an empty payload and the
\* linear decoder reports a code result, the call resolves to
\* {success:true, barcode:code, format:symbology of the linear result}.
C10_Fallback ==
    \A s \in ShotIds :
        (/\ \/ shots[s].qr.kind = "null"
            \/ shots[s].qr.kind = "code" /\ shots[s].qr.data = ""
         /\ shots[s].lin.kind = "code") =>
            /\ shots[s].pc = "resolved"
            /\ shots[s].result =
                  [success |-> TRUE, barcode |-> shots[s].lin.code,
                   format |-> shots[s].lin.format, error |-> None]

\* an empty matrix payload on one path, a null matrix result on the other,
\* each followed by a linear code result
C10_Witness ==
    \E s, t \in ShotIds :
        /\ shots[s].path = "file" /\ shots[t].path = "canvas"
        /\ shots[s].qr.kind # shots[t].qr.kind
        /\ shots[s].qr.data # "ITEM-42" /\ shots[t].qr.data # "ITEM-42"
        /\ shots[s].lin.kind = "code" /\ shots[t].lin.kind = "code"

\* C11: when the matrix decoder yields null or an empty payload and the
\* linear decoder's callback carries no code result, the call resolves to
\* exactly {success:false, error:"No barcode detected in image"}.
C11_NothingDetected ==
    \A s \in ShotIds :
        (/\ \/ shots[s].qr.kind = "null"
            \/ shots[s].qr.kind = "code" /\ shots[s].qr.data = ""
         /\ shots[s].lin.kind \in {"undefined", "noCodeResult"}) =>
            /\ shots[s].pc = "resolved"
            /\ shots[s].result =
                  [success |-> FALSE, barcode |-> None, format |-> None,
                   error |-> "No barcode detected in image"]

\* both decoders came back empty on the file path and on the canvas path
C11_Witness ==
    \E s, t \in ShotIds :
        /\ shots[s].path = "file" /\ shots[t].path = "canvas"
        /\ shots[s].qr.kind = "null" /\ shots[t].qr.kind = "code"
        /\ shots[s].lin.kind = "undefined" /\ shots[t].lin.kind = "noCodeResult"
        /\ shots[s].pc = "resolved" /\ shots[t].pc = "resolved"

\* C12: a startCameraDetection that directly follows cleanup does what a
\* start before any initializeCamera does: one "Camera not initialized"
\* failure to the supplied callback, no backend call, nothing registered.
C12_StartAfterCleanup ==
    [][(lastOp = "cleanup" /\ lastOp' = "startCameraDetection") =>
          /\ Len(lastDelivered') = 1
          /\ lastDelivered'[1].result =
                [success |-> FALSE, barcode |-> None, format |-> None,
                 error |-> "Camera not initialized"]
          /\ lastCalls' = <<>>
          /\ ~quagga'.running
          /\ quagga'.listeners = <<>>
          /\ ~isInitialized']_vars

\* a start made after the cleanup of a camera that had been initialized
C12_Witness ==
    /\ lastOp = "startCameraDetection"
    /\ pre.stoppedBy = "cleanup"
    /\ quagga.inited
    /\ ~pre.isInitialized
    /\ Len(lastDelivered) = 1

\* C13: when cleanup returns the service is uninitialized, the pipeline is
\* halted, no listener is registered and the device is not held; if
\* initializeCamera was never called, cleanup makes no backend call.
C13_CleanupResets ==
    lastOp = "cleanup" =>
        /\ ~isInitialized
        /\ ~quagga.running
        /\ quagga.listeners = <<>>
        /\ ~quagga.held
        /\ (\A c \in InitIds : initCalls[c].pc = "idle") => lastCalls = <<>>

\* a cleanup made while streaming
C13_Witness ==
    /\ lastOp = "cleanup"
    /\ pre.running
    /\ pre.listeners > 0
    /\ pre.held

\* C14: while some initializeCamera call has failed and none has succeeded,
\* the service is uninitialized, and a startCameraDetection delivers the
\* "Camera not initialized" failure without a backend call.
C14_FailedInitStaysUninitialized ==
    (/\ \E c \in InitIds : initCalls[c].err
     /\ \A c \in InitIds : initCalls[c].pc # "resolved_true") =>
        /\ ~isInitialized
        /\ lastOp = "startCameraDetection" =>
              /\ lastCalls = <<>>
              /\ Len(lastDelivered) = 1
              /\ lastDelivered[1].result.error = "Camera not initialized"
              /\ ~lastDelivered[1].result.success
              /\ quagga.listeners = <<>>
              /\ ~quagga.running

\* a start made after a failed initialization
C14_Witness ==
    /\ lastOp = "startCameraDetection"
    /\ \E c \in InitIds : initCalls[c].err
    /\ \A c \in InitIds : initCalls[c].pc # "resolved_true"
    /\ Len(lastDelivered) = 1

\* what a consumer callback cb receives for the decode events evs, one
\* result per event, in order
Deliveries(cb, evs) ==
    [i \in 1..Len(evs) |->
        [cb |-> cb,
         result |-> [success |-> TRUE, barcode |-> evs[i].code,
                     format |-> evs[i].format, error |-> None]]]

\* C15: while streaming after a single startCameraDetection, the results
\* delivered to its callback are the decode events the pipeline reported: same
\* order, same count, each {success:true, barcode:code, format:format},
\* repeated identical reads included.
C15_DeliveryOrder ==
    session.starts = 1 =>
        session.received = Deliveries(session.cb, session.emitted)

\* the same read reported twice and delivered twice
C15_Witness ==
    /\ session.starts = 1
    /\ Len(session.emitted) = 2
    /\ session.emitted[1] = session.emitted[2]
    /\ Len(session.received) = 2

\* C18: the service is initialized, or holds the device, only through an
\* initializeCamera call issued after the last cleanup; a call that was
\* waiting when cleanup ran leaves the service uninitialized when its
\* callback fires.
C18_CleanupWinsOverPendingInit ==
    (isInitialized \/ quagga.held) =>
        \E c \in InitIds :
            initCalls[c].pc = "resolved_true" /\ ~initCalls[c].stale

\* C19: overlapping initializeCamera calls invoke Quagga.init once: at most
\* one backend initialization is in flight at any time.
C19_SingleAcquisition ==
    Cardinality({c \in InitIds : initCalls[c].pc = "waiting"}) <= 1

\* C20: after a stop that removed the listeners, with no cleanup since, a
\* startCameraDetection succeeds without re-initialization, and the decode
\* events reported after it are delivered once each, to its callback only.
C20_RestartAfterStop ==
    /\ (/\ lastOp = "startCameraDetection"
        /\ pre.stoppedBy \in {"stopCameraDetection", "callback"}
        /\ session.prev # <<>>) =>
          /\ lastDelivered = <<>>
          /\ lastCalls = <<"Quagga.start", "Quagga.onDetected">>
          /\ quagga.running
    /\ (session.starts = 1 /\ session.prev # <<>>) =>
          /\ quagga.listeners = <<session.cb>>
          /\ \A i \in 1..Len(session.received) :
                session.received[i].cb = session.cb
          /\ Len(session.received) = Len(session.emitted)

\* start(cb1), stop, start(cb2), then an event delivered to cb2
C20_Witness ==
    /\ session.starts = 1
    /\ session.prev = <<"cb1">>
    /\ session.cb = "cb2"
    /\ Len(session.emitted) = 1
    /\ Len(session.received) = 1
    /\ lastOp = "deviceEmit"

\* a result with exactly one of {barcode, format} and {error} populated
WellFormed(r) ==
    IF r.success
      THEN /\ r.barcode \notin {None, ""}
           /\ r.format \notin {None, ""}
           /\ r.error = None
      ELSE /\ r.error \notin {None, ""}
           /\ r.barcode = None
           /\ r.format = None

\* C16: every result the service produces (to a streaming callback, as a
\* one-shot result, as the failure of an uninitialized start) has barcode and
\* format set and no error when success is true, and a non-empty error and no
\* barcode or format when success is false.
C16_ResultsWellFormed ==
    /\ \A i \in 1..Len(lastDelivered) : WellFormed(lastDelivered[i].result)
    /\ \A i \in 1..Len(session.received) : WellFormed(session.received[i].result)
    /\ \A s \in ShotIds : shots[s].pc = "resolved" => WellFormed(shots[s].result)

\* a decode event delivered to a listener after a one-shot call has failed
C16_Witness ==
    /\ lastOp = "deviceEmit"
    /\ Len(lastDelivered) >= 1
    /\ \E s \in ShotIds : shots[s].pc = "resolved" /\ ~shots[s].result.success

ShotOps ==
    {"detectFromImageFile", "img.onload", "img.onerror", "detectFromCanvas",
     "decodeSingleCallback"}

\* the result of a resolved one-shot call as a function of what the canvas,
\* the image loader and the two decoders did
ExpectedResult(sh) ==
    IF sh.ctx = "throws"
      THEN [success |-> FALSE, barcode |-> None, format |-> None,
            error |-> IF sh.path = "file" THEN "Failed to process image"
                      ELSE "Failed to process canvas"]
    ELSE IF sh.ctx = "null"
      THEN [success |-> FALSE, barcode |-> None, format |-> None,
            error |-> "Could not get canvas context"]
    ELSE IF sh.thrown # None
      THEN [success |-> FALSE, barcode |-> None, format |-> None,
            error |-> "Failed to process canvas"]
    ELSE IF sh.qr.kind = "notRun"
      THEN [success |-> FALSE, barcode |-> None, format |-> None,
            error |-> "Could not load image"]
    ELSE IF sh.qr.kind = "code" /\ sh.qr.data # ""
      THEN [success |-> TRUE, barcode |-> sh.qr.data, format |-> "QR_CODE",
            error |-> None]
    ELSE IF sh.lin.kind = "code"
      THEN [success |-> TRUE, barcode |-> sh.lin.code, format |-> sh.lin.format,
            error |-> None]
    ELSE [success |-> FALSE, barcode |-> None, format |-> None,
          error |-> "No barcode detected in image"]

LinearCalls(sh) ==
    Cardinality({i \in 1..Len(sh.trace) : sh.trace[i] = "Quagga.decodeSingle"})

\* the decode attempts of each call are sequential: the linear decoder is
\* invoked at most once, after the matrix decoder returned without a payload,
\* and no result is produced while its callback is outstanding
C21_Ordering ==
    \A s \in ShotIds :
        /\ LinearCalls(shots[s]) <= 1
        /\ LinearCalls(shots[s]) = 1 =>
              /\ shots[s].trace = <<"jsQR", "Quagga.decodeSingle">>
              /\ shots[s].qr.kind \in {"null", "code"}
              /\ shots[s].qr.kind = "code" => shots[s].qr.data = ""
        /\ shots[s].resolves <= 1
        /\ shots[s].pc = "decoding" => shots[s].resolves = 0
        /\ (shots[s].resolves = 1 /\ LinearCalls(shots[s]) = 1) =>
              shots[s].lin.kind # "notRun"

\* C21: within one one-shot call the linear decoder is invoked at most once
\* and only after the matrix decoder returned nothing, the result is not
\* produced before the linear decoder's callback when the fallback ran, and a
\* call with no handler left to run has resolved its promise exactly once.
C21_SequentialResolvesOnce ==
    /\ C21_Ordering
    /\ \A s \in ShotIds :
          shots[s].pc \in {"resolved", "hung", "rejected"} =>
              shots[s].resolves = 1

\* C22: a detectFromImageFile call whose image loaded and a detectFromCanvas
\* call on a canvas with a 2D context, given the same matrix-decoder outcome
\* and the same linear-decoder outcome and no exception, make the same decoder
\* invocations with the same reader list and return the same result.
C22_SamePipeline ==
    \A s, t \in ShotIds :
        (/\ shots[s].path = "file" /\ shots[t].path = "canvas"
         /\ shots[s].ctx = "context" /\ shots[t].ctx = "context"
         /\ shots[s].thrown = None /\ shots[t].thrown = None
         /\ shots[s].qr.kind # "notRun"
         /\ shots[s].qr = shots[t].qr
         /\ shots[s].lin = shots[t].lin) =>
            /\ shots[s].trace = shots[t].trace
            /\ shots[s].readers = shots[t].readers
            /\ shots[s].pc = shots[t].pc
            /\ shots[s].result = shots[t].result

\* both paths went through the fallback and found nothing
C22_Witness ==
    \E s, t \in ShotIds :
        /\ shots[s].path = "file" /\ shots[t].path = "canvas"
        /\ shots[s].qr.kind = "null" /\ shots[t].qr.kind = "null"
        /\ shots[s].lin.kind = "noCodeResult" /\ shots[t].lin.kind = "noCodeResult"
        /\ shots[s].pc = "resolved" /\ shots[t].pc = "resolved"
        /\ LinearCalls(shots[s]) = 1 /\ LinearCalls(shots[t]) = 1

Range(seq) == {seq[i] : i \in 1..Len(seq)}

\* the readers of Code 128, EAN-13, EAN-8, Code 39, UPC-A and UPC-E
SixReaders ==
    {"code_128_reader", "ean_reader", "ean_8_reader", "code_39_reader",
     "upc_reader", "upc_e_reader"}

\* the symbologies only the streaming configuration has a reader for
StreamingOnly ==
    {ReaderFormat(rd) : rd \in Range(StreamReaders) \ SixReaders}

\* every decodeSingle call is configured with exactly the six readers, a
\* strict subset of the nine streaming readers
C23_ReaderSets ==
    /\ Len(StreamReaders) = 9 /\ Cardinality(Range(StreamReaders)) = 9
    /\ StreamingOnly = {"code_39_vin", "codabar", "i2of5"}
    /\ \A s \in ShotIds :
          LinearCalls(shots[s]) = 1 =>
              /\ Len(shots[s].readers) = 6
              /\ Range(shots[s].readers) = SixReaders
              /\ Range(shots[s].readers) \subseteq Range(StreamReaders)
              /\ Range(shots[s].readers) # Range(StreamReaders)

\* C23 as stated: the six readers on both paths, a strict subset of the nine
\* streaming readers, and a frame whose only symbol is Code 39 VIN, Codabar
\* or Interleaved 2 of 5 resolves to the "No barcode detected in image"
\* failure.
C23_StreamingOnlyUndetected ==
    /\ C23_ReaderSets
    /\ \A s \in ShotIds :
          (shots[s].symbol \in StreamingOnly /\ shots[s].pc = "resolved") =>
              shots[s].result =
                  [success |-> FALSE, barcode |-> None, format |-> None,
                   error |-> "No barcode detected in image"]

\* C23, amended: the six readers on both paths, a strict subset of the nine
\* streaming readers; a frame whose only symbol is Codabar or Interleaved
\* 2 of 5 resolves to the "No barcode detected in image" failure; a frame
\* whose only symbol is Code 39 VIN resolves to that failure or to a success
\* of format "code_39"; no one-shot result carries a streaming-only format.
C23_OneShotReaders ==
    /\ C23_ReaderSets
    /\ \A s \in ShotIds :
          /\ (shots[s].symbol \in {"codabar", "i2of5"} /\ shots[s].pc = "resolved") =>
                shots[s].result =
                    [success |-> FALSE, barcode |-> None, format |-> None,
                     error |-> "No barcode detected in image"]
          /\ (shots[s].symbol = "code_39_vin" /\ shots[s].pc = "resolved") =>
                \/ shots[s].result =
                      [success |-> FALSE, barcode |-> None, format |-> None,
                       error |-> "No barcode detected in image"]
                \/ /\ shots[s].result.success
                   /\ shots[s].result.format = "code_39"
          /\ (shots[s].symbol # None /\ shots[s].pc = "resolved") =>
                shots[s].result.format \notin StreamingOnly

\* a Codabar frame on the file path and an Interleaved 2 of 5 frame on the
\* canvas path, both resolved
C23_Witness ==
    \E s, t \in ShotIds :
        /\ shots[s].path = "file" /\ shots[t].path = "canvas"
        /\ shots[s].symbol = "codabar" /\ shots[t].symbol = "i2of5"
        /\ shots[s].pc = "resolved" /\ shots[t].pc = "resolved"
        /\ ~shots[s].result.success /\ ~shots[t].result.success

\* C24: after every handler of the mounted component cameraInitialized
\* equals the service's isInitialized, and a startCamera that follows
\* stopCamera invokes Quagga.init before streaming starts.
C24_UiAgreesWithService ==
    /\ ui.mounted => (ui.cameraInitialized = isInitialized)
    /\ (lastOp = "startCamera" /\ pre.stoppedBy = "stopCameraDetection") =>
          lastCalls = <<"Quagga.init">>

\* C25: at every initializeCamera('camera-container') call of the component
\* the element #camera-container is in the document.
C25_TargetMounted ==
    ui.target # "absent"

\* C26: while the component is mounted and at least one processBarcode
\* request is in flight, isLoading is true.
C26_LoadingWhileInFlight ==
    (ui.mounted /\ ui.inFlight > 0) => ui.isLoading

====
